---- MODULE Spec2Model ----
(***************************************************************************)
(* The streaming chat client of rag-project-client: the useStreamingChat   *)
(* hook (sendMessage, abortStream), apiClient.stream, and the page's       *)
(* handleSendMessage, which reconciles the optimistic message with the     *)
(* messages confirmed by the server.                                       *)
(*                                                                         *)
(* Text is a sequence of symbols.  The response body is a sequence of      *)
(* symbols too: a record is the prefix "data: " (two symbols), a JSON      *)
(* object (three symbols: the opening with the type, the content, the      *)
(* closing brace) and a newline.  The transport cuts the body into chunks  *)
(* at any symbol.                                                          *)
(***************************************************************************)
EXTENDS Naturals, Sequences, FiniteSets, TLC

\* ------------------------------------------------------------------ bounds
\* calls of handleSendMessage in one behaviour
MaxSends == 2
\* records the server emits in one response body, when several calls are followed
MaxAppEvents == 2
\* records the server emits in one response body, when one call is followed
MaxEvents == 5
\* symbols emitted by the server and not yet read (one record is 6 symbols)
MaxWire == 6
\* records the server emits in one response body, when every event type is drawn
MaxFoldEvents == 3
\* symbols emitted and not yet read, when lines that are no record are emitted
MaxLineWire == 11

Calls == 1..MaxSends

\* ---------------------------------------------------------- values
Null == [id |-> <<"null", "">>, role |-> "null"]
Undefined == "undefined"
NoError == "null"
BlockedStatus == "Message blocked"
FailedToSend == "Failed to send message"
NotFound == "Chat or user not found"
NoUser == "null"

\* the confirmed messages the server creates for the n-th send
ServerMessage(role, n) ==
    [id |-> <<"srv-", ToString(IF role = "user" THEN 2 * n - 1 ELSE 2 * n)>>,
     role |-> role]

ServerMessages ==
    {ServerMessage(r, n) : r \in {"user", "assistant"}, n \in Calls}

\* the JSON text of a message, one symbol of the body
MsgJson(m) == m.role \o "#" \o m.id[2]

\* ---------------------------------------------------------- the wire format
Prefix == <<"data", ": ">>
NL == "\n"
Close == "}"

\* the bytes of one record: data: {"type":t,"content":c}\n
RecordBytes(ev) == Prefix \o <<ev[1], ev[2], Close>> \o <<NL>>

\* the JSON text of a one-element array (a Citation[] or a WebSource[])
ListJson(x) == "[" \o x \o "]"

\* the elements of the arrays the server sends
ListItems == {"c1", "c2", "w1", "w2"}

\* the JSON content symbols and the values they parse to
ContentSyms ==
    {"a", "b", "P", "E", "null"}
        \cup {MsgJson(m) : m \in ServerMessages}
        \cup {ListJson(x) : x \in ListItems}

ContentValue(c) ==
    IF \E m \in ServerMessages : MsgJson(m) = c
    THEN CHOOSE m \in ServerMessages : MsgJson(m) = c
    ELSE IF \E x \in ListItems : ListJson(x) = c
         THEN <<CHOOSE x \in ListItems : ListJson(x) = c>>
         ELSE c

\* ---------------------------------------------------------- string operations
\* line.startsWith(p)
StartsWith(line, p) ==
    /\ Len(line) >= Len(p)
    /\ SubSeq(line, 1, Len(p)) = p

\* line.slice(n)
Slice(line, n) == SubSeq(line, n + 1, Len(line))

\* chunk.split("\n"): the pieces between the separators, empty ones included
RECURSIVE SplitFrom(_, _, _)
SplitFrom(chunk, i, cur) ==
    IF i > Len(chunk) THEN <<cur>>
    ELSE IF chunk[i] = NL
         THEN <<cur>> \o SplitFrom(chunk, i + 1, <<>>)
         ELSE SplitFrom(chunk, i + 1, Append(cur, chunk[i]))

Split(chunk) == SplitFrom(chunk, 1, <<>>)

\* a parser that takes an object without its closing brace for a whole one
JSONparseLenient(body) ==
    IF /\ Len(body) \in {2, 3}
       /\ body[1] \notin {Close, NL} \cup ContentSyms
       /\ body[2] \in ContentSyms
    THEN [ok |-> TRUE, type |-> body[1], content |-> ContentValue(body[2])]
    ELSE [ok |-> FALSE, type |-> "", content |-> ""]

\* JSON.parse of a record's body: a value for a complete object, a SyntaxError
\* (ok = FALSE) for anything else, a truncated object included
JSONparse(body) ==
    IF /\ Len(body) = 3
       /\ body[3] = Close
       /\ body[1] \notin {Close, NL} \cup ContentSyms
       /\ body[2] \in ContentSyms
    THEN [ok |-> TRUE, type |-> body[1], content |-> ContentValue(body[2])]
    ELSE [ok |-> FALSE, type |-> "", content |-> ""]

\* ---------------------------------------------------------- the event fold
\* locals that still hold the text of an earlier stream
StaleLocals ==
    [fullResponse |-> <<"a">>,
     collectedCitations |-> <<>>,
     collectedWebSources |-> <<>>,
     userMessage |-> Null,
     aiMessage |-> Null,
     blocked |-> FALSE,
     blockReason |-> Undefined]

\* the locals of one sendMessage call
InitLocals ==
    [fullResponse |-> <<>>,
     collectedCitations |-> <<>>,
     collectedWebSources |-> <<>>,
     userMessage |-> Null,
     aiMessage |-> Null,
     blocked |-> FALSE,
     blockReason |-> Undefined]

\* a published state that still shows the text of an earlier stream
StalePublished ==
    [streamingContent |-> <<"a">>, status |-> "", citations |-> <<>>, webSources |-> <<>>]

\* the state the hook publishes while streaming
InitPublished ==
    [streamingContent |-> <<>>, status |-> "", citations |-> <<>>, webSources |-> <<>>]

\* a fold that puts the new token in front of the text
OnTokenPrepend(ses, content) ==
    LET full == <<content>> \o ses.loc.fullResponse
    IN  [ses EXCEPT !.loc.fullResponse = full, !.pub.streamingContent = full]

\* a fold that keeps the token and does not show it
OnTokenUnpublished(ses, content) ==
    [ses EXCEPT !.loc.fullResponse = Append(ses.loc.fullResponse, content)]

\* case "token"
OnToken(ses, content) ==
    LET full == Append(ses.loc.fullResponse, content)
    IN  [ses EXCEPT !.loc.fullResponse = full, !.pub.streamingContent = full]

\* a block that shows its message and does not mark the result as blocked
OnGuardrailBlockedUnflagged(ses, content) ==
    [ses EXCEPT !.loc.fullResponse = <<content>>,
                !.pub.streamingContent = <<content>>]

\* case "guardrail_blocked"
OnGuardrailBlocked(ses, content) ==
    [ses EXCEPT !.loc.blocked = TRUE,
                !.loc.blockReason = content,
                !.loc.fullResponse = <<content>>,
                !.pub.streamingContent = <<content>>,
                !.pub.status = BlockedStatus]

\* case "error": the Error thrown inside the inner try is caught by its own
\* catch (parseError), which ignores it
OnError(ses, content) == ses

\* a fold that adds the new citations to the ones it holds
OnCitationsAppend(ses, content) ==
    [ses EXCEPT !.loc.collectedCitations = ses.loc.collectedCitations \o content,
                !.pub.citations = ses.pub.citations \o content]

\* case "citations"
OnCitations(ses, content) ==
    [ses EXCEPT !.loc.collectedCitations = content, !.pub.citations = content]

\* a fold that shows the payload of such an event as text
OnIgnoredAsText(ses, content) ==
    [ses EXCEPT !.loc.fullResponse = Append(ses.loc.fullResponse, content),
                !.pub.streamingContent = Append(ses.loc.fullResponse, content)]

\* case "guardrail_warning", case "done" (a log line at most, then break) and
\* a type with no case
OnIgnored(ses, content) == ses

\* the switch over event.type; ses = [loc, pub, dec]
HandleEvent(ses, ev) ==
    CASE ev.type = "status" -> [ses EXCEPT !.pub.status = ev.content]
      [] ev.type = "token" -> OnToken(ses, ev.content)
      [] ev.type = "citations" -> OnCitations(ses, ev.content)
      [] ev.type = "web_sources" ->
            [ses EXCEPT !.loc.collectedWebSources = ev.content,
                        !.pub.webSources = ev.content]
      [] ev.type = "user_message" -> [ses EXCEPT !.loc.userMessage = ev.content]
      [] ev.type = "ai_message" -> [ses EXCEPT !.loc.aiMessage = ev.content]
      [] ev.type = "guardrail_blocked" -> OnGuardrailBlocked(ses, ev.content)
      [] ev.type = "guardrail_warning" -> OnIgnored(ses, ev.content)
      [] ev.type = "done" -> OnIgnored(ses, ev.content)
      [] ev.type = "error" -> OnError(ses, ev.content)
      [] OTHER -> OnIgnored(ses, ev.content)

\* the body of the loop over the lines of a chunk; dec logs the bodies parsed
HandleLine(ses, line) ==
    IF StartsWith(line, Prefix)
    THEN LET body == Slice(line, Len(Prefix))
             ev == JSONparse(body)
         IN  IF ev.ok
             THEN [HandleEvent(ses, ev) EXCEPT !.dec = Append(ses.dec, body)]
             ELSE ses
    ELSE ses

RECURSIVE HandleLines(_, _, _)
HandleLines(ses, lines, i) ==
    IF i > Len(lines) THEN ses
    ELSE HandleLines(HandleLine(ses, lines[i]), lines, i + 1)

\* one iteration of the read loop: decode, split, fold every line
ProcessChunk(ses, chunk) == HandleLines(ses, Split(chunk), 1)

\* ------------------------------------------------------------------ state
VARIABLES
    messages,           \* page: currentChatData.messages
    sendMessageError,   \* page: sendMessageError
    now,                \* Date.now() at the latest call (0: no call yet)
    isStreaming,        \* hook state
    published,          \* hook state: streamingContent, status, citations, webSources
    abortControllerRef, \* hook ref: 0 (null) or the call whose controller it holds
    pc,                 \* per call: where the call is suspended
    aborted,            \* per call: its controller's signal.aborted
    optimisticId,       \* per call: optimisticUserMessage.id
    local,              \* per call: the locals of sendMessage
    wire,               \* per call: body symbols emitted and not yet read
    outcome,            \* per call: how the promise of sendMessage settled
    decoded,            \* per call: the record bodies parsed so far
    sent,               \* per call: the events the server has emitted
    before,             \* per call: messages when the call started
    nCalls,             \* calls of handleSendMessage so far
    nEmitted,           \* per call: records the server has emitted
    chatLoaded,         \* page: currentChatData is not null
    userId              \* page: useAuth().userId

vars ==
    <<messages, sendMessageError, now, isStreaming, published, abortControllerRef,
      pc, aborted, optimisticId, local, wire, outcome, decoded, sent,
      before, nCalls, nEmitted, chatLoaded, userId>>

\* what only loadChat and the session of the user change
loadVars == <<chatLoaded, userId>>

pageVars == <<messages, sendMessageError>>
hookVars == <<isStreaming, published, abortControllerRef>>
streamVars == <<wire, sent, nEmitted>>

NoOutcome ==
    [kind |-> "pending", how |-> "", userMessage |-> Null, aiMessage |-> Null,
     response |-> <<>>, citations |-> <<>>, webSources |-> <<>>,
     blocked |-> FALSE, blockReason |-> Undefined, error |-> NoError]

Init ==
    /\ messages = <<>>
    /\ sendMessageError = NoError
    /\ now = 0
    /\ isStreaming = FALSE
    /\ published = InitPublished
    /\ abortControllerRef = 0
    /\ pc = [s \in Calls |-> "idle"]
    /\ aborted = [s \in Calls |-> FALSE]
    /\ optimisticId = [s \in Calls |-> <<"", "">>]
    /\ local = [s \in Calls |-> InitLocals]
    /\ wire = [s \in Calls |-> <<>>]
    /\ outcome = [s \in Calls |-> NoOutcome]
    /\ decoded = [s \in Calls |-> <<>>]
    /\ sent = [s \in Calls |-> <<>>]
    /\ before = [s \in Calls |-> <<>>]
    /\ nCalls = 0
    /\ nEmitted = [s \in Calls |-> 0]
    /\ chatLoaded = FALSE
    /\ userId \in {"user", NoUser}

\* A settled sendMessage resumes handleSendMessage in a microtask: nothing else
\* runs between the two.
NoMicrotask == \A s \in Calls : pc[s] \notin {"returned", "resumed"}

\* controller.abort() rejects the pending fetch or read at once; the catch
\* block of that call runs in a microtask after the task that called abort.
AbortPending == \E s \in Calls : aborted[s] /\ pc[s] \in {"stream", "read"}

\* a new task (a timer, network data, a resolved promise) may start
TaskMayStart == NoMicrotask /\ ~AbortPending

InFlight(s) == pc[s] \in {"getToken", "stream", "read"}

\* ------------------------------------------------------------------ the page
\* msg.id.startsWith("temp-")
IsTemp(msg) == msg.id[1] = "temp-"

\* the optimistic message of a call made at time t
OptimisticMessage(t) == [id |-> <<"temp-", ToString(t)>>, role |-> "user"]

\* ChatInterface is rendered with isLoading = isStreaming and takes no input
\* while it is loading
UiAllowsSend == ~isStreaming

\* a handler that starts the send without looking at the chat data or the
\* user id
HandleSendMessageUnguarded(s, t) ==
    /\ NoMicrotask
    /\ pc[s] = "idle"
    /\ s = nCalls + 1
    /\ UiAllowsSend
    /\ t \in {now, now + 1} \ {0}
    /\ now' = t
    /\ nCalls' = nCalls + 1
    /\ sendMessageError' = NoError
    /\ optimisticId' = [optimisticId EXCEPT ![s] = OptimisticMessage(t).id]
    /\ before' = [before EXCEPT ![s] = messages]
    /\ messages' = Append(messages, OptimisticMessage(t))
    /\ isStreaming' = TRUE
    /\ published' = InitPublished
    /\ abortControllerRef' = s
    /\ aborted' = [aborted EXCEPT ![s] = FALSE]
    /\ local' = [local EXCEPT ![s] = InitLocals]
    /\ pc' = [pc EXCEPT ![s] = "getToken"]
    /\ UNCHANGED <<outcome, decoded, streamVars, loadVars>>

\* handleSendMessage up to its await, with sendMessage up to its first await;
\* without chat data or user id it sets the error and returns
HandleSendMessage(s, t) ==
    /\ NoMicrotask
    /\ pc[s] = "idle"
    /\ s = nCalls + 1
    /\ UiAllowsSend
    /\ t \in {now, now + 1} \ {0}
    /\ IF ~chatLoaded \/ userId = NoUser
       THEN /\ sendMessageError' = NotFound
            /\ UNCHANGED <<messages, now, hookVars, pc, aborted, optimisticId,
                           local, before, nCalls>>
       ELSE /\ now' = t
            /\ nCalls' = nCalls + 1
            /\ sendMessageError' = NoError
            /\ optimisticId' = [optimisticId EXCEPT ![s] = OptimisticMessage(t).id]
            /\ before' = [before EXCEPT ![s] = messages]
            /\ messages' = Append(messages, OptimisticMessage(t))
            /\ isStreaming' = TRUE
            /\ published' = InitPublished
            /\ abortControllerRef' = s
            /\ aborted' = [aborted EXCEPT ![s] = FALSE]
            /\ local' = [local EXCEPT ![s] = InitLocals]
            /\ pc' = [pc EXCEPT ![s] = "getToken"]
    /\ UNCHANGED <<outcome, decoded, streamVars, loadVars>>

\* the effect that loads the chat: without a user id it returns at once; a
\* failed request leaves currentChatData as it is
LoadChat(ok) ==
    /\ NoMicrotask
    /\ ~chatLoaded
    /\ userId # NoUser
    /\ ok
    /\ chatLoaded' = TRUE
    /\ messages' = <<>>
    /\ UNCHANGED <<sendMessageError, now, hookVars, pc, aborted, optimisticId,
                   local, outcome, decoded, before, nCalls, streamVars, userId>>

\* the user's session ends: useAuth() returns no user id
SignOut ==
    /\ NoMicrotask
    /\ userId # NoUser
    /\ userId' = NoUser
    /\ UNCHANGED <<pageVars, now, hookVars, pc, aborted, optimisticId, local,
                   outcome, decoded, before, nCalls, streamVars, chatLoaded>>

\* the filter of the success branch
RemoveOptimistic(msgs, id) == SelectSeq(msgs, LAMBDA msg : msg.id # id)

\* a catch branch that empties the list
RemoveEverything(msgs) == SelectSeq(msgs, LAMBDA msg : FALSE)

\* the filter of the catch branch
RemoveTemps(msgs) == SelectSeq(msgs, LAMBDA msg : ~IsTemp(msg))

\* an update that appends the confirmed messages and keeps the optimistic one
AppendConfirmed(msgs, id, out) == msgs \o <<out.userMessage, out.aiMessage>>

\* the success branch: one update that drops the optimistic message and
\* appends the two confirmed ones
ReplaceOptimistic(msgs, id, out) ==
    RemoveOptimistic(msgs, id) \o <<out.userMessage, out.aiMessage>>

\* handleSendMessage after its await: if (result) ... / catch (err) ...
Resume(s) ==
    /\ UNCHANGED loadVars
    /\ pc[s] = "returned"
    /\ pc' = [pc EXCEPT ![s] = "resumed"]
    /\ CASE outcome[s].kind = "result" ->
              /\ messages' = ReplaceOptimistic(messages, optimisticId[s], outcome[s])
              /\ UNCHANGED sendMessageError
         [] outcome[s].kind = "throw" ->
              /\ sendMessageError' = FailedToSend
              /\ messages' = RemoveTemps(messages)
         [] OTHER -> UNCHANGED <<messages, sendMessageError>>
    /\ UNCHANGED <<now, hookVars, aborted, optimisticId, local, outcome, decoded,
                   before, nCalls, streamVars>>

\* handleSendMessage returns: the call's closure (its locals, its controller,
\* its response) is released
Finish(s) ==
    /\ UNCHANGED loadVars
    /\ pc[s] = "resumed"
    /\ pc' = [pc EXCEPT ![s] = "done"]
    /\ aborted' = [aborted EXCEPT ![s] = FALSE]
    /\ optimisticId' = [optimisticId EXCEPT ![s] = <<"", "">>]
    /\ local' = [local EXCEPT ![s] = InitLocals]
    /\ wire' = [wire EXCEPT ![s] = <<>>]
    /\ outcome' = [outcome EXCEPT ![s] = NoOutcome]
    /\ decoded' = [decoded EXCEPT ![s] = <<>>]
    /\ sent' = [sent EXCEPT ![s] = <<>>]
    /\ before' = [before EXCEPT ![s] = <<>>]
    /\ nEmitted' = [nEmitted EXCEPT ![s] = 0]
    /\ UNCHANGED <<pageVars, now, hookVars, nCalls>>

\* ------------------------------------------------------------------ the hook
\* what sendMessage returns when the read loop ends: the result if both
\* messages were received, else nothing (undefined)
LoopResult(loc) ==
    IF loc.userMessage # Null /\ loc.aiMessage # Null
    THEN [NoOutcome EXCEPT !.kind = "result", !.how = "eof",
                           !.userMessage = loc.userMessage,
                           !.aiMessage = loc.aiMessage,
                           !.response = loc.fullResponse,
                           !.citations = loc.collectedCitations,
                           !.webSources = loc.collectedWebSources,
                           !.blocked = loc.blocked,
                           !.blockReason = loc.blockReason]
    ELSE [NoOutcome EXCEPT !.kind = "undefined", !.how = "eof"]

\* catch (error): an AbortError is logged and swallowed
AbortResult == [NoOutcome EXCEPT !.kind = "undefined", !.how = "abort"]

\* a catch block that logs the error and does not rethrow it
Swallowed(err) == [NoOutcome EXCEPT !.kind = "undefined", !.how = "error", !.error = err]

\* catch (error): any other error is rethrown
Rethrown(err) == [NoOutcome EXCEPT !.kind = "throw", !.how = "error", !.error = err]

\* a finally block that leaves the controller in the ref
SettleKeepsController(s, out) ==
    /\ pc' = [pc EXCEPT ![s] = "returned"]
    /\ outcome' = [outcome EXCEPT ![s] = out]
    /\ isStreaming' = FALSE
    /\ published' = [published EXCEPT !.status = ""]
    /\ UNCHANGED abortControllerRef

\* a finally block that leaves isStreaming as it is
SettleKeepsStreaming(s, out) ==
    /\ pc' = [pc EXCEPT ![s] = "returned"]
    /\ outcome' = [outcome EXCEPT ![s] = out]
    /\ published' = [published EXCEPT !.status = ""]
    /\ abortControllerRef' = 0
    /\ UNCHANGED isStreaming

\* the finally block, and the promise settling with out
Settle(s, out) ==
    /\ pc' = [pc EXCEPT ![s] = "returned"]
    /\ outcome' = [outcome EXCEPT ![s] = out]
    /\ isStreaming' = FALSE
    /\ published' = [published EXCEPT !.status = ""]
    /\ abortControllerRef' = 0

\* await getToken() resolves; apiClient.stream starts its fetch
GetToken(s) ==
    /\ UNCHANGED loadVars
    /\ TaskMayStart
    /\ pc[s] = "getToken"
    /\ pc' = [pc EXCEPT ![s] = "stream"]
    /\ UNCHANGED <<pageVars, now, hookVars, aborted, optimisticId, local, outcome,
                   decoded, before, nCalls, streamVars>>

\* apiClient.stream: the response is ok and its body has a reader
StreamOpens(s) ==
    /\ UNCHANGED loadVars
    /\ TaskMayStart
    /\ pc[s] = "stream"
    /\ ~aborted[s]
    /\ pc' = [pc EXCEPT ![s] = "read"]
    /\ UNCHANGED <<pageVars, now, hookVars, aborted, optimisticId, local, outcome,
                   decoded, before, nCalls, streamVars>>

\* apiClient.stream: fetch fails or the response is not ok: Error("API Error")
StreamFails(s) ==
    /\ UNCHANGED loadVars
    /\ TaskMayStart
    /\ pc[s] = "stream"
    /\ ~aborted[s]
    /\ Settle(s, Rethrown("API Error"))
    /\ UNCHANGED <<pageVars, now, aborted, optimisticId, local, decoded, before,
                   nCalls, streamVars>>

\* the server writes one record to the body (log: keep the event in sent)
ServerEmit(s, ev, max, log) ==
    /\ UNCHANGED loadVars
    /\ TaskMayStart
    /\ pc[s] = "read"
    /\ nEmitted[s] < max
    /\ Len(wire[s]) + Len(RecordBytes(ev)) <= MaxWire
    /\ wire' = [wire EXCEPT ![s] = wire[s] \o RecordBytes(ev)]
    /\ sent' = IF log THEN [sent EXCEPT ![s] = Append(sent[s], ev)] ELSE sent
    /\ nEmitted' = [nEmitted EXCEPT ![s] = nEmitted[s] + 1]
    /\ UNCHANGED <<pageVars, now, hookVars, pc, aborted, optimisticId, local,
                   outcome, decoded, before, nCalls>>

\* a "data: " line whose JSON object lacks its closing brace
Malformed == Prefix \o <<"token", "a", NL>>

\* a line that does not start with "data: "
NotData == <<": ", "a", NL>>

JunkLines == {Malformed, NotData}

\* the server writes a line that is no record, then a record; both are kept
\* in sent
ServerEmitAfter(s, junk, ev, max) ==
    /\ UNCHANGED loadVars
    /\ TaskMayStart
    /\ pc[s] = "read"
    /\ nEmitted[s] < max
    /\ Len(wire[s]) + Len(junk) + Len(RecordBytes(ev)) <= MaxLineWire
    /\ wire' = [wire EXCEPT ![s] = wire[s] \o junk \o RecordBytes(ev)]
    /\ sent' = [sent EXCEPT ![s] = Append(Append(sent[s], junk), ev)]
    /\ nEmitted' = [nEmitted EXCEPT ![s] = nEmitted[s] + 1]
    /\ UNCHANGED <<pageVars, now, hookVars, pc, aborted, optimisticId, local,
                   outcome, decoded, before, nCalls>>

\* reader.read() resolves with the next n symbols; the loop body folds them
ReadChunk(s, n) ==
    /\ UNCHANGED loadVars
    /\ TaskMayStart
    /\ pc[s] = "read"
    /\ ~aborted[s]
    /\ n \in 1..Len(wire[s])
    /\ LET ses == ProcessChunk([loc |-> local[s], pub |-> published, dec |-> decoded[s]],
                               SubSeq(wire[s], 1, n))
       IN  /\ local' = [local EXCEPT ![s] = ses.loc]
           /\ published' = ses.pub
           /\ decoded' = [decoded EXCEPT ![s] = ses.dec]
    /\ wire' = [wire EXCEPT ![s] = Slice(wire[s], n)]
    /\ UNCHANGED <<pageVars, now, isStreaming, abortControllerRef, pc, aborted,
                   optimisticId, outcome, before, nCalls, sent, nEmitted>>

\* a loop that opens the stream again when the body has ended
ReadDoneRetries(s) ==
    /\ UNCHANGED loadVars
    /\ TaskMayStart
    /\ pc[s] = "read"
    /\ ~aborted[s]
    /\ wire[s] = <<>>
    /\ pc' = [pc EXCEPT ![s] = "stream"]
    /\ UNCHANGED <<pageVars, now, hookVars, aborted, optimisticId, local, outcome,
                   decoded, before, nCalls, streamVars>>

\* the server ends the body after what was read: reader.read() resolves with
\* done, the loop ends, sendMessage returns
ReadDone(s) ==
    /\ UNCHANGED loadVars
    /\ TaskMayStart
    /\ pc[s] = "read"
    /\ ~aborted[s]
    /\ wire[s] = <<>>
    /\ Settle(s, LoopResult(local[s]))
    /\ UNCHANGED <<pageVars, now, aborted, optimisticId, local, decoded, before,
                   nCalls, streamVars>>

\* reader.read() rejects: the connection broke
ReadFails(s) ==
    /\ UNCHANGED loadVars
    /\ TaskMayStart
    /\ pc[s] = "read"
    /\ ~aborted[s]
    /\ Settle(s, Rethrown("network error"))
    /\ UNCHANGED <<pageVars, now, aborted, optimisticId, local, decoded, before,
                   nCalls, streamVars>>

\* the pending fetch or read rejects with an AbortError
ObserveAbort(s) ==
    /\ UNCHANGED loadVars
    /\ NoMicrotask
    /\ pc[s] \in {"stream", "read"}
    /\ aborted[s]
    /\ Settle(s, AbortResult)
    /\ UNCHANGED <<pageVars, now, aborted, optimisticId, local, decoded, before,
                   nCalls, streamVars>>

\* abortStream(): if (abortControllerRef.current) { abort, reset } and
\* nothing otherwise
AbortStream ==
    /\ NoMicrotask
    /\ IF abortControllerRef # 0
       THEN /\ aborted' = [aborted EXCEPT ![abortControllerRef] = TRUE]
            /\ isStreaming' = FALSE
            /\ published' = [published EXCEPT !.status = ""]
            /\ UNCHANGED <<pageVars, now, abortControllerRef, pc, optimisticId,
                           local, outcome, decoded, before, nCalls, streamVars,
                           loadVars>>
       ELSE UNCHANGED vars

\* ------------------------------------------------------------------ behaviours
\* the events the server may emit for the n-th send: <<type, JSON content>>
UserEvent(n) == <<"user_message", MsgJson(ServerMessage("user", n))>>
AiEvent(n) == <<"ai_message", MsgJson(ServerMessage("assistant", n))>>

\* the steps of call s when the server draws at most max events from evs and
\* the transport delivers chunks of the lengths in sizes
Step(s, evs, max, log, sizes) ==
    \/ \E t \in 1..MaxSends : HandleSendMessage(s, t)
    \/ GetToken(s)
    \/ StreamOpens(s)
    \/ StreamFails(s)
    \/ \E ev \in evs : ServerEmit(s, ev, max, log)
    \/ \E n \in sizes : ReadChunk(s, n)
    \/ ReadDone(s)
    \/ ReadFails(s)
    \/ ObserveAbort(s)
    \/ Resume(s)
    \/ Finish(s)

\* chunks of any length
AnyCut == 1..MaxWire

\* chunks that end inside the JSON object of a record or at the end of a record
CoarseCut == {Len(Prefix) + 1, Len(RecordBytes(<<"done", "null">>))}

\* the page: several calls, a server that confirms the two messages
AppEvents(n) == {UserEvent(n), AiEvent(n)}

Next == AbortStream \/ LoadChat(TRUE) \/ \E s \in Calls : Step(s, AppEvents(s), MaxAppEvents, FALSE, CoarseCut)

Spec == Init /\ [][Next]_vars

\* the page, with a user whose session may end
NextGuard == Next \/ SignOut

SpecGuard == Init /\ [][NextGuard]_vars

\* the next continuation of call s runs: getToken() settles, the request is
\* answered or fails, the pending read resolves with a chunk, with the end of
\* the body or with an error, an abort rejects the pending await, the settled
\* promise resumes handleSendMessage
Progress(s) ==
    \/ GetToken(s)
    \/ StreamOpens(s)
    \/ StreamFails(s)
    \/ \E n \in CoarseCut : ReadChunk(s, n)
    \/ ReadDone(s)
    \/ ReadFails(s)
    \/ ObserveAbort(s)
    \/ Resume(s)
    \/ Finish(s)

\* the event loop runs every continuation that is ready again and again
Fairness == \A s \in Calls : SF_vars(Progress(s))

SpecLive == Init /\ [][Next]_vars /\ Fairness

\* two calls that may overlap, a server that reports its progress, sends text
\* and confirms the two messages
OverlapEvents(n) == {<<"status", "a">>, <<"token", "a">>} \cup AppEvents(n)

\* chunks that hold one whole record
RecordCut == {Len(RecordBytes(<<"done", "null">>))}

NextOverlap ==
    AbortStream \/ LoadChat(TRUE) \/ \E s \in Calls : Step(s, OverlapEvents(s), MaxAppEvents, FALSE, RecordCut)

SpecOverlap == Init /\ [][NextOverlap]_vars

\* one call, the events the final text is made of
StreamEvents ==
    {<<"token", "a">>, <<"token", "b">>, UserEvent(1), AiEvent(1),
     <<"guardrail_blocked", "P">>, <<"done", "null">>}

NextStream == AbortStream \/ LoadChat(TRUE) \/ Step(1, StreamEvents, MaxEvents, FALSE, CoarseCut)

SpecStream == Init /\ [][NextStream]_vars

\* one call, every event type the switch has a case for but error, and a
\* type it has no case for
FoldEvents ==
    {<<"status", "a">>, <<"status", "b">>, <<"token", "a">>,
     <<"guardrail_blocked", "P">>,
     <<"citations", ListJson("c1")>>, <<"citations", ListJson("c2")>>,
     <<"web_sources", ListJson("w1")>>, <<"web_sources", ListJson("w2")>>,
     UserEvent(1), AiEvent(1),
     <<"guardrail_warning", "a">>, <<"done", "null">>, <<"ping", "a">>}

NextFold == AbortStream \/ LoadChat(TRUE) \/ Step(1, FoldEvents, MaxFoldEvents, FALSE, RecordCut)

SpecFold == Init /\ [][NextFold]_vars

\* one call, a body with lines that are no record, chunks that end with a line
LineEvents == {<<"token", "a">>, <<"token", "b">>, UserEvent(1), AiEvent(1)}

LineCut(s) == {n \in 1..Len(wire[s]) : wire[s][n] = NL}

NextLines ==
    \/ AbortStream
    \/ LoadChat(TRUE)
    \/ Step(1, LineEvents, MaxFoldEvents, TRUE, LineCut(1))
    \/ \E junk \in JunkLines, ev \in LineEvents :
          ServerEmitAfter(1, junk, ev, MaxFoldEvents)

SpecLines == Init /\ [][NextLines]_vars

\* one call, a server that reports an error
ErrorEvents == {<<"token", "a">>, UserEvent(1), AiEvent(1), <<"error", "E">>}

NextError == AbortStream \/ LoadChat(TRUE) \/ Step(1, ErrorEvents, MaxEvents, FALSE, AnyCut)

SpecError == Init /\ [][NextError]_vars

\* one call, text only, the events emitted kept in sent
FramingEvents == {<<"token", "a">>, <<"token", "b">>, <<"done", "null">>}

NextFraming == AbortStream \/ LoadChat(TRUE) \/ Step(1, FramingEvents, MaxEvents, TRUE, AnyCut)

SpecFraming == Init /\ [][NextFraming]_vars

\* ------------------------------------------------------------------ claims
\* sendMessage has settled and handleSendMessage has not resumed yet: the
\* locals of the call and its outcome are both in the state
Settled(s) == pc[s] = "returned"

\* the read loop of call s ran until the body ended
ReadToEnd(s) == Settled(s) /\ outcome[s].how = "eof"

\* handleSendMessage has run to its end
Finished(s) == pc[s] = "resumed"

HasType(dec, type) == \E i \in 1..Len(dec) : dec[i][1] = type

\* the contents of the token records of a log, in order
RECURSIVE TokenPayloads(_)
TokenPayloads(dec) ==
    IF dec = <<>> THEN <<>>
    ELSE IF Head(dec)[1] = "token"
         THEN <<Head(dec)[2]>> \o TokenPayloads(Tail(dec))
         ELSE TokenPayloads(Tail(dec))

\* the bytes of a whole body
RECURSIVE BodyBytes(_)
BodyBytes(evs) ==
    IF evs = <<>> THEN <<>> ELSE RecordBytes(Head(evs)) \o BodyBytes(Tail(evs))

\* the session after the whole body arrived as one chunk
SingleChunk(evs) ==
    ProcessChunk([loc |-> InitLocals, pub |-> InitPublished, dec |-> <<>>],
                 BodyBytes(evs))

\* C1: framing is independent of the chunk boundaries.  When the read loop has
\* consumed the whole body, the events folded and the final text are those of
\* the same body delivered as a single chunk, however the body was cut.
C1_ChunkBoundaryIndependent ==
    \A s \in Calls :
        ReadToEnd(s) =>
            /\ decoded[s] = SingleChunk(sent[s]).dec
            /\ local[s].fullResponse = SingleChunk(sent[s]).loc.fullResponse

\* C2: a stream read to its end whose events hold no guardrail_blocked, hold a
\* user_message and an ai_message and end in done resolves to a result whose
\* response is the token payloads in arrival order.
C2_Applies(s) ==
    /\ ReadToEnd(s)
    /\ ~HasType(decoded[s], "guardrail_blocked")
    /\ HasType(decoded[s], "user_message")
    /\ HasType(decoded[s], "ai_message")
    /\ decoded[s] # <<>>
    /\ decoded[s][Len(decoded[s])][1] = "done"

C2_TextIsTokensInOrder ==
    \A s \in Calls :
        C2_Applies(s) =>
            /\ outcome[s].kind = "result"
            /\ outcome[s].response = TokenPayloads(decoded[s])

C2_Witness ==
    \E s \in Calls : C2_Applies(s) /\ outcome[s].response = <<"a", "b">>

\* C3: a stream read to its end with a guardrail_blocked event, both messages
\* and a final done resolves to a result whose response is the block message,
\* whatever tokens the stream also holds.
C3_Applies(s) ==
    /\ ReadToEnd(s)
    /\ HasType(decoded[s], "guardrail_blocked")
    /\ HasType(decoded[s], "user_message")
    /\ HasType(decoded[s], "ai_message")
    /\ decoded[s][Len(decoded[s])][1] = "done"

C3_BlockMessageIsTheText ==
    \A s \in Calls :
        C3_Applies(s) =>
            /\ outcome[s].kind = "result"
            /\ outcome[s].response = <<"P">>

\* C5: a body that ends before both a user_message and an ai_message were
\* received makes sendMessage fail (it throws), and never yields a result.
C5_IncompleteStreamFails ==
    \A s \in Calls :
        (/\ ReadToEnd(s)
         /\ ~(HasType(decoded[s], "user_message") /\ HasType(decoded[s], "ai_message")))
        => outcome[s].kind = "throw"

\* C6: once an error event was decoded, sendMessage settles with a failure
\* that carries the event's payload, whatever precedes or follows the event
\* (stated for the calls that are not aborted and whose connection holds).
C6_ErrorEventFails ==
    \A s \in Calls :
        (/\ Settled(s)
         /\ HasType(decoded[s], "error")
         /\ ~aborted[s]
         /\ outcome[s].error # "network error")
        => (outcome[s].kind = "throw" /\ outcome[s].error = "E")


\* the provisional messages of a list
TempCount(msgs) == Cardinality({i \in 1..Len(msgs) : IsTemp(msgs[i])})

HasId(msgs, id) == \E i \in 1..Len(msgs) : msgs[i].id = id

\* the list holds a message the server confirmed for the n-th send
HasConfirmed(msgs, n) ==
    \E i \in 1..Len(msgs) :
        msgs[i] \in {ServerMessage("user", n), ServerMessage("assistant", n)}

\* C4: a send aborted while in flight settles as cancelled and returns no
\* message; after handleSendMessage has finished, the message list holds
\* neither the provisional message nor a confirmed message of that send.
C4_CancelLeavesNoMessage ==
    \A s \in Calls :
        (Finished(s) /\ outcome[s].how = "abort") =>
            /\ outcome[s].kind = "undefined"
            /\ outcome[s].userMessage = Null
            /\ outcome[s].aiMessage = Null
            /\ ~HasId(messages, optimisticId[s])
            /\ ~HasConfirmed(messages, s)

\* C7: the provisional message and the confirmed user message of one send are
\* never in the list together, and a confirmed user message is always directly
\* followed by the confirmed assistant message of its send.
C7_AtomicReplace ==
    /\ \A s \in Calls :
          ~(/\ HasId(messages, optimisticId[s])
            /\ \E i \in 1..Len(messages) : messages[i] = ServerMessage("user", s))
    /\ \A s \in Calls : \A i \in 1..Len(messages) :
          /\ messages[i] = ServerMessage("user", s) =>
                (i < Len(messages) /\ messages[i + 1] = ServerMessage("assistant", s))
          /\ messages[i] = ServerMessage("assistant", s) =>
                (i > 1 /\ messages[i - 1] = ServerMessage("user", s))

\* a second send succeeded after an earlier one had left messages in the list
C7_Witness ==
    \E s \in Calls :
        /\ Finished(s)
        /\ outcome[s].kind = "result"
        /\ before[s] # <<>>
        /\ Len(messages) >= 2
        /\ messages[Len(messages) - 1] = ServerMessage("user", s)
        /\ messages[Len(messages)] = ServerMessage("assistant", s)

\* C8: when a send ends in a failure or is cancelled, handleSendMessage leaves
\* the message list as it was before the send started, and a failure sets the
\* one failure reason.
C8_FailureRestoresList ==
    \A s \in Calls :
        (Finished(s) /\ outcome[s].kind # "result") =>
            /\ messages = before[s]
            /\ outcome[s].how # "abort" => sendMessageError = FailedToSend

\* C9: at most one send is in flight: a call made before the previous send has
\* settled is rejected.
C9_OneSendInFlight == Cardinality({s \in Calls : InFlight(s)}) <= 1

\* C10: over a sequence of sends, each made after the one before it has run to
\* its end, whatever their outcomes, the message list never holds more than
\* one provisional message.
C10_AtMostOneProvisional ==
    Cardinality({s \in Calls : pc[s] \notin {"idle", "done"}}) <= 1
        => TempCount(messages) <= 1

\* the kinds of a settled promise: a result, a rethrown error, or nothing
\* (undefined: the send was cancelled)
TerminalKinds == {"result", "throw", "undefined"}

\* no call is between its start and the settling of its promise
NoneInFlight == \A s \in Calls : ~InFlight(s)

\* C11: a call of sendMessage settles once, with one terminal outcome, which
\* nothing changes afterwards; and abortStream called when no send is in
\* flight changes no state.
C11_OneOutcomeAbortNoOp ==
    /\ [](\A s \in Calls :
            /\ (Settled(s) \/ Finished(s)) => outcome[s].kind \in TerminalKinds
            /\ InFlight(s) => outcome[s] = NoOutcome)
    /\ [][\A s \in Calls :
            (Settled(s) \/ (Finished(s) /\ pc'[s] = "resumed"))
                => outcome'[s] = outcome[s]]_vars
    /\ [][(AbortStream /\ NoneInFlight) => UNCHANGED vars]_vars

\* a send has run to its end and abortStream may be called
C11_Witness ==
    /\ \E s \in Calls : pc[s] = "done"
    /\ NoneInFlight
    /\ NoMicrotask
    /\ abortControllerRef = 0

C13_BadStatusFailsBeforeBody ==
    \A s \in Calls :
        ((Settled(s) \/ Finished(s)) /\ outcome[s].error = "API Error") =>
            /\ outcome[s].kind = "throw"
            /\ decoded[s] = <<>>
            /\ local[s] = InitLocals
            /\ nEmitted[s] = 0
            /\ wire[s] = <<>>
            /\ published.streamingContent = <<>>
            /\ Finished(s) => sendMessageError = FailedToSend

\* a send was refused by the server while the list held messages of an earlier send
C13_Witness ==
    \E s \in Calls :
        /\ Finished(s)
        /\ outcome[s].error = "API Error"
        /\ before[s] # <<>>

\* the last record of a log
LastDecoded(dec) == dec[Len(dec)]

\* call s folds exactly one more record in this step
FoldsOne(s) == Len(decoded'[s]) = Len(decoded[s]) + 1

\* C14: a guardrail_blocked event does not fail the send.  A stream read to
\* its end that holds guardrail_blocked, user_message and ai_message settles
\* with a result whose blocked is true and whose blockReason is the event's
\* payload; and the step that folds the event publishes the blocked status.
C14_BlockedIsSuccess ==
    /\ [](\A s \in Calls :
            (/\ ReadToEnd(s)
             /\ HasType(decoded[s], "guardrail_blocked")
             /\ HasType(decoded[s], "user_message")
             /\ HasType(decoded[s], "ai_message"))
            => /\ outcome[s].kind = "result"
               /\ outcome[s].blocked = TRUE
               /\ outcome[s].blockReason = "P")
    /\ [][\A s \in Calls :
            (FoldsOne(s) /\ LastDecoded(decoded'[s])[1] = "guardrail_blocked")
            => /\ published'.status = BlockedStatus
               /\ local'[s].blocked = TRUE
               /\ pc'[s] = "read"]_vars

\* a blocked send has settled with its two messages
C14_Witness ==
    \E s \in Calls :
        /\ ReadToEnd(s)
        /\ HasType(decoded[s], "guardrail_blocked")
        /\ outcome[s].kind = "result"
        /\ outcome[s].blocked = TRUE

\* a fresh session: no text, no lists, no messages, not blocked
FreshSession ==
    [loc |-> [fullResponse |-> <<>>, collectedCitations |-> <<>>,
              collectedWebSources |-> <<>>, userMessage |-> Null,
              aiMessage |-> Null, blocked |-> FALSE, blockReason |-> Undefined],
     pub |-> [streamingContent |-> <<>>, status |-> "", citations |-> <<>>,
              webSources |-> <<>>],
     dec |-> <<>>]

\* the event sequence dec folded once more, event by event, from ses
RECURSIVE ReplayFrom(_, _, _)
ReplayFrom(ses, dec, i) ==
    IF i > Len(dec) THEN ses
    ELSE ReplayFrom(HandleEvent(ses, JSONparse(dec[i])), dec, i + 1)

Replay(dec) == ReplayFrom(FreshSession, dec, 1)

FrameOf(loc, pub, type, v) ==
    CASE type = "status" ->
            [loc |-> loc, pub |-> [pub EXCEPT !.status = v]]
      [] type = "token" ->
            [loc |-> [loc EXCEPT !.fullResponse = Append(loc.fullResponse, v)],
             pub |-> [pub EXCEPT !.streamingContent = Append(loc.fullResponse, v)]]
      [] type = "citations" ->
            [loc |-> [loc EXCEPT !.collectedCitations = v],
             pub |-> [pub EXCEPT !.citations = v]]
      [] type = "web_sources" ->
            [loc |-> [loc EXCEPT !.collectedWebSources = v],
             pub |-> [pub EXCEPT !.webSources = v]]
      [] type = "user_message" ->
            [loc |-> [loc EXCEPT !.userMessage = v], pub |-> pub]
      [] type = "ai_message" ->
            [loc |-> [loc EXCEPT !.aiMessage = v], pub |-> pub]

StateCarrying ==
    {"status", "token", "citations", "web_sources", "user_message", "ai_message"}

\* C16: the step that folds a status, token, citations, web_sources,
\* user_message or ai_message event changes the field of that event (its
\* local and its published copy) and leaves every other field as it was;
\* citations and web_sources replace the list they hold.
C16_EventChangesOwnField ==
    [][\A s \in Calls :
          (FoldsOne(s) /\ LastDecoded(decoded'[s])[1] \in StateCarrying)
          => LET ev == JSONparse(LastDecoded(decoded'[s]))
                 fr == FrameOf(local[s], published, ev.type, ev.content)
             IN  /\ local'[s] = fr.loc
                 /\ published' = fr.pub
                 /\ pc'[s] = pc[s]
                 /\ isStreaming' = isStreaming
                 /\ outcome'[s] = outcome[s]]_vars

\* a second citations event has replaced the list of the first
C16_Witness ==
    \E s \in Calls :
        /\ pc[s] = "read"
        /\ Len(decoded[s]) >= 2
        /\ decoded[s][1] = <<"citations", ListJson("c1"), Close>>
        /\ LastDecoded(decoded[s]) = <<"citations", ListJson("c2"), Close>>
        /\ local[s].collectedCitations = <<"c2">>
        /\ published.citations = <<"c2">>

Ignored == {"guardrail_warning", "done", "ping"}

\* C17: the step that folds a guardrail_warning event, a done event or an
\* event of an unknown type changes nothing: the locals, the published state
\* and the position of the call are the same before and after, and the call
\* goes on reading.
C17_IgnoredEventsChangeNothing ==
    [][\A s \in Calls :
          (FoldsOne(s) /\ LastDecoded(decoded'[s])[1] \in Ignored)
          => /\ local'[s] = local[s]
             /\ published' = published
             /\ isStreaming' = isStreaming
             /\ outcome'[s] = outcome[s]
             /\ pc'[s] = "read"]_vars

\* an event of one of these kinds was folded while text was shown
C17_Witness ==
    \E s \in Calls :
        /\ pc[s] = "read"
        /\ decoded[s] # <<>>
        /\ LastDecoded(decoded[s])[1] \in Ignored
        /\ local[s].fullResponse = <<"a">>
        /\ published.streamingContent = <<"a">>

\* the records of a type in a log
CountType(dec, type) == Cardinality({i \in 1..Len(dec) : dec[i][1] = type})

\* C18: a second user_message (or ai_message) event in one stream is an
\* error: a stream read to its end that holds both events, one of them
\* twice, does not settle with a result.
C18_DuplicateMessageIsError ==
    \A s \in Calls :
        (/\ ReadToEnd(s)
         /\ HasType(decoded[s], "user_message")
         /\ HasType(decoded[s], "ai_message")
         /\ \/ CountType(decoded[s], "user_message") >= 2
            \/ CountType(decoded[s], "ai_message") >= 2)
        => outcome[s].kind = "throw"

\* the records among the lines the server has emitted, as the bodies the
\* parser is given
RECURSIVE Bodies(_)
Bodies(lines) ==
    IF lines = <<>> THEN <<>>
    ELSE IF Len(Head(lines)) = 2
         THEN <<Head(lines) \o <<Close>>>> \o Bodies(Tail(lines))
         ELSE Bodies(Tail(lines))

\* C19: a "data: " line whose JSON does not parse, and a line without the
\* prefix, neither stop the stream nor change the session.  When everything
\* the server wrote has been read (in chunks that end with a line), the
\* events folded are exactly the records written, the session is that of
\* these records alone, and a body that ends with both messages settles with
\* a result.
C19_BadLinesAreSkipped ==
    \A s \in Calls :
        (/\ wire[s] = <<>>
         /\ pc[s] = "read" \/ ReadToEnd(s))
        => /\ decoded[s] = Bodies(sent[s])
           /\ local[s] = Replay(Bodies(sent[s])).loc
           /\ published.streamingContent
                 = Replay(Bodies(sent[s])).pub.streamingContent
           /\ (/\ ReadToEnd(s)
               /\ HasType(Bodies(sent[s]), "user_message")
               /\ HasType(Bodies(sent[s]), "ai_message"))
              => outcome[s].kind = "result"

\* a body with both kinds of bad line, each followed by a record, was read
\* to its end and the send succeeded
C19_Witness ==
    \E s \in Calls :
        /\ ReadToEnd(s)
        /\ \E i, j \in 1..Len(sent[s]) : sent[s][i] = Malformed /\ sent[s][j] = NotData
        /\ outcome[s].kind = "result"
        /\ outcome[s].response # <<>>

\* C20: a done event observed with both messages set ends the send: the
\* outcome of a stream read to its end is the result held when the first
\* such done was folded, whatever records follow it.
C20_DoneIsTerminal ==
    \A s \in Calls :
        ReadToEnd(s) =>
            \A i \in 1..Len(decoded[s]) :
                LET upTo == SubSeq(decoded[s], 1, i)
                IN  (/\ decoded[s][i][1] = "done"
                     /\ HasType(upTo, "user_message")
                     /\ HasType(upTo, "ai_message"))
                    => outcome[s] = LoopResult(Replay(upTo).loc)

\* call s is reading its body and was not cancelled
Streaming(s) == pc[s] = "read" /\ ~aborted[s]

\* C21: the intermediate state is published after every event.  While a send
\* is streaming, the published text and lists are those of its locals; the
\* step that folds a token or a guardrail_blocked event publishes the text
\* the locals hold after it, and the step that folds a citations or a
\* web_sources event publishes the list collected.
C21_PublishedFollowsLocals ==
    /\ [](\A s \in Calls :
            Streaming(s) =>
                /\ published.streamingContent = local[s].fullResponse
                /\ published.citations = local[s].collectedCitations
                /\ published.webSources = local[s].collectedWebSources)
    /\ [][\A s \in Calls :
            FoldsOne(s) =>
                LET type == LastDecoded(decoded'[s])[1]
                IN  /\ type \in {"token", "guardrail_blocked"}
                       => published'.streamingContent = local'[s].fullResponse
                    /\ type = "citations"
                       => published'.citations = local'[s].collectedCitations
                    /\ type = "web_sources"
                       => published'.webSources = local'[s].collectedWebSources]_vars

\* a block, a token after it and a list were folded and are shown
C21_Witness ==
    \E s \in Calls :
        /\ Streaming(s)
        /\ published.streamingContent = <<"P", "a">>
        /\ published.citations # <<>> \/ published.webSources # <<>>

\* call s starts in this step
Starts(s) == pc[s] = "idle" /\ pc'[s] = "getToken"

\* C22: session state is not reused across sends.  The step that starts a
\* call gives it empty locals and resets the published text, status and
\* lists; and when its body has ended, its locals and its outcome are those of
\* its own events replayed from a fresh session, whatever the earlier sends
\* received and however they ended.
C22_NoStateReuse ==
    /\ [][\A s \in Calls :
            Starts(s) => (local'[s] = FreshSession.loc /\ published' = FreshSession.pub)]_vars
    /\ [](\A s \in Calls :
            ReadToEnd(s) =>
                /\ local[s] = Replay(decoded[s]).loc
                /\ outcome[s] = LoopResult(Replay(decoded[s]).loc))

\* after a send that was confirmed, a second send received text only: it
\* holds that text and no message of the first
C22_Witness ==
    \E s \in Calls :
        /\ ReadToEnd(s)
        /\ HasConfirmed(before[s], 1)
        /\ s # 1
        /\ local[s].fullResponse = <<"a">>
        /\ outcome[s].kind = "undefined"

\* C23: isStreaming is set when a send starts; when a send has settled, by
\* whatever path, isStreaming is false, the published status is empty and
\* the controller reference is null; and isStreaming is false whenever no
\* send is in flight.
C23_IsStreamingTracksSend ==
    /\ [][\A s \in Calls :
            Starts(s) => (isStreaming' = TRUE /\ abortControllerRef' = s)]_vars
    /\ [](\A s \in Calls :
            (Settled(s) \/ Finished(s)) =>
                /\ outcome[s].kind \in TerminalKinds
                /\ isStreaming = FALSE
                /\ published.status = ""
                /\ abortControllerRef = 0)
    /\ [](NoneInFlight => isStreaming = FALSE)

\* a send that had published a status was cancelled and has settled
C23_Witness ==
    \E s \in Calls :
        /\ Settled(s)
        /\ HasType(decoded[s], "status")
        /\ outcome[s].how = "abort"

\* the confirmed messages of a list, in order
Confirmed(msgs) == SelectSeq(msgs, LAMBDA msg : ~IsTemp(msg))

\* a is b with some of its elements left out
RECURSIVE IsSubsequence(_, _)
IsSubsequence(a, b) ==
    IF a = <<>> THEN TRUE
    ELSE IF b = <<>> THEN FALSE
    ELSE IF Head(a) = Head(b) THEN IsSubsequence(Tail(a), Tail(b))
    ELSE IsSubsequence(a, Tail(b))

\* C24: confirmed messages are never lost or reordered.  Every step leaves
\* the list as the old list with provisional messages left out at most,
\* followed by what it appends: the confirmed messages of the old list are
\* all kept, in their order, in front of anything new.
C24_ConfirmedMessagesKept ==
    [][\E k \in 0..Len(messages') :
          LET kept == SubSeq(messages', 1, k)
          IN  /\ IsSubsequence(kept, messages)
              /\ Confirmed(kept) = Confirmed(messages)]_vars

\* a send failed after an earlier one was confirmed, and the confirmed
\* messages are the whole list
C24_Witness ==
    \E s \in Calls :
        /\ Finished(s)
        /\ outcome[s].kind = "throw"
        /\ before[s] # <<>>
        /\ Confirmed(before[s]) = before[s]
        /\ messages = before[s]

\* the chat data or the user id is missing
NothingToSendTo == ~chatLoaded \/ userId = NoUser

\* C25: handleSendMessage called without chat data or without a user id sets
\* the error "Chat or user not found" and does nothing else: the message
\* list, the hook and every call are as before; and no send ever starts in
\* such a state.
C25_GuardRejectsSend ==
    /\ [][(NothingToSendTo /\ \E s \in Calls, t \in 1..MaxSends : HandleSendMessage(s, t))
            => /\ sendMessageError' = NotFound
               /\ UNCHANGED <<messages, now, isStreaming, published,
                              abortControllerRef, pc, aborted, optimisticId, local,
                              wire, outcome, decoded, sent, before, nCalls,
                              nEmitted, chatLoaded, userId>>]_vars
    /\ [][\A s \in Calls : Starts(s) => ~NothingToSendTo]_vars

\* a send was refused after the user's session had ended, with messages in
\* the list
C25_Witness ==
    /\ sendMessageError = NotFound
    /\ chatLoaded
    /\ userId = NoUser
    /\ messages # <<>>
    /\ NoneInFlight

\* C26: every send settles.  A call of sendMessage that has started reaches a
\* terminal outcome and handleSendMessage runs to its end, and isStreaming,
\* once true, becomes false again: nothing retries, and no call waits for
\* ever once its body has ended, its transport has failed or it was aborted.
C26_EverySendSettles ==
    /\ \A s \in Calls : InFlight(s) ~> (Settled(s) /\ outcome[s].kind \in TerminalKinds)
    /\ \A s \in Calls : InFlight(s) ~> (pc[s] = "done")
    /\ isStreaming ~> ~isStreaming

\* both sends have run to their end, the second after it was cancelled
C26_Witness ==
    /\ \A s \in Calls : pc[s] = "done"
    /\ ~isStreaming
    /\ TempCount(messages) >= 1

====
